---- MODULE Spec2Model ----
(***************************************************************************)
(* SMI bus arbitration and frame buffering (package smi).                  *)
(*                                                                         *)
(* A Flit64 is modelled by the record [d2, d3, eofc, pl]: d2 and d3 are    *)
(* Data[2] and Data[3], eofc is Eofc, and pl stands for the six bytes      *)
(* Data[0], Data[1], Data[4..7] that no routine of the package reads or    *)
(* writes; the environment puts a distinguishing marker there.             *)
(*                                                                         *)
(* Channels that are parameters of the routines (smiInput, smiOutput,      *)
(* upstreamRequest, ...) are modelled by the sequence of flits that have   *)
(* passed through them; channels made inside a routine are modelled by     *)
(* their buffer content.                                                   *)
(***************************************************************************)
EXTENDS Integers, Sequences, FiniteSets, TLC

VARIABLES
    \* ---- ForwardFrame64 / AssembleFrame64 ----
    routine,        \* which routine was started: "forward", "assemble", "none"
    smiPending,     \* flit the sender on smiInput is blocked on (<<>> if none)
    smiInput,       \* flits the routine has received from smiInput
    smiBuffer,      \* content of the buffered channel smiBuffer
    smiOutput,      \* flits the routine has sent to smiOutput
    inPc,           \* position of the ingress loop
    inputFlitData,  \* local of the ingress loop
    outPc,          \* position of the egress loop
    outputFlitData, \* local of the egress loop
    \* ---- manageUpstreamPort, one instance per upstream port ----
    nPorts,         \* 2, 3 or 4: ArbitrateX2, ArbitrateX3 or ArbitrateX4
    rqPc,           \* position of the request goroutine
    rqFlit,         \* headerFlit / bodyFlit of the request goroutine
    rqTag,          \* tagId of the request goroutine
    rsPc,           \* position of the response loop
    rsFlit,         \* headerFlit / bodyFlit of the response loop
    rsTag,          \* tagId of the response loop
    tagTableLower,
    tagTableUpper,
    tagFifo,
    \* ---- ArbitrateXn ----
    taggedRequest,
    taggedResponse,
    transferReq,
    arPc,           \* position of the request-side goroutine
    arPortId,       \* portId of the request-side goroutine
    reqFlit,
    asPc,           \* position of the response steering loop
    portId,         \* portId of the response steering loop
    isHeaderFlit,
    respFlit,
    panicked,       \* a goroutine hit a run-time panic: the process is gone
    \* ---- the arbiter's external channels ----
    workload,           \* what the upstream producers are going to send
    upstreamRequest,    \* per port: flits received from upstreamRequest
    upstreamResponse,   \* per port: flits sent to upstreamResponse
    downstreamRequest,  \* flits sent to downstreamRequest
    downstreamResponse  \* flits received from downstreamResponse

bufVars == <<routine, smiPending, smiInput, smiBuffer, smiOutput, inPc, inputFlitData,
             outPc, outputFlitData>>
mgrVars == <<rqPc, rqFlit, rqTag, rsPc, rsFlit, rsTag, tagTableLower,
             tagTableUpper, tagFifo>>
arbVars == <<nPorts, taggedRequest, taggedResponse, transferReq, arPc, arPortId,
             reqFlit, asPc, portId, isHeaderFlit, respFlit, panicked>>
envVars == <<workload, upstreamRequest, upstreamResponse, downstreamRequest,
             downstreamResponse>>
vars == <<bufVars, mgrVars, arbVars, envVars>>

(***************************************************************************)
(* Bounds of the model.                                                    *)
(***************************************************************************)
MaxFeed == 36          \* flits the sender offers on smiInput
MaxReqFlits == 3       \* flits the upstream producers send, all ports together
MaxSenders == 2        \* neighbouring upstream ports that send
MaxBurst == 5          \* single-flit frames one port sends when it alone sends
MaxFrameLen == 2       \* flits of the longest frame the environment sends
MaxAnyFlits == 3       \* flits an arbitrary downstream sends
MaxAnyReq == 2         \* flits the producers send to such a downstream

(***************************************************************************)
(* Program constants.                                                      *)
(***************************************************************************)
SmiBufferSize == 34    \* capacity of smiBuffer
SmiMemInFlightLimit == 4   \* size of tagFifo, tagTableLower, tagTableUpper
ChanSize == 1          \* capacity of taggedRequest, taggedResponse, transferReq
NoFlit == [d2 |-> 0, d3 |-> 0, eofc |-> 0, pl |-> <<>>]   \* Go zero value

\* Eofc values the environment uses: 0 (more flits follow), nonzero (last flit).
EofcVals == {0, 8}
\* Data[2], Data[3] of the body flits the producers send: a port id, a tag.
UpstreamBodyBytes == <<1, 3>>
\* Data[2], Data[3] of the body flits the downstream sends: a port id, a tag.
DownstreamBodyBytes == <<1, 2>>
\* Data[3] of the headers an arbitrary downstream sends.
AnyTags == {0, 4}
\* Data[2] of those headers: no port, the last port, past the last port.
AnyPortIds == {0, nPorts, nPorts + 1}

Last(s) == s[Len(s)]

(***************************************************************************)
(* The sender on smiInput: a well-formed stream of frames, one flit at a   *)
(* time. smiInput is unbuffered from the routine's side: the sender stays  *)
(* blocked on its flit until the routine receives it.                      *)
(***************************************************************************)
Offered == smiInput \o smiPending

NextFeedMarker ==
    IF Offered = <<>> THEN <<1, 0>>
    ELSE IF Last(Offered).eofc # 0 THEN <<Last(Offered).pl[1] + 1, 0>>
    ELSE <<Last(Offered).pl[1], Last(Offered).pl[2] + 1>>

Feed ==
    /\ routine # "none"
    /\ smiPending = <<>>
    /\ Len(smiInput) < MaxFeed
    /\ \E e \in EofcVals :
         smiPending' = <<[d2 |-> 0, d3 |-> 0, eofc |-> e, pl |-> NextFeedMarker]>>
    /\ UNCHANGED <<routine, smiInput, smiBuffer, smiOutput, inPc, inputFlitData,
                   outPc, outputFlitData>>
    /\ UNCHANGED <<mgrVars, arbVars, envVars>>

(***************************************************************************)
(* ForwardFrame64: ingress goroutine and egress loop.                      *)
(***************************************************************************)
\* inputFlitData := <-smiInput
ForwardIngressRecv ==
    /\ routine = "forward"
    /\ inPc = "recv"
    /\ smiPending # <<>>
    /\ inputFlitData' = smiPending[1]
    /\ smiInput' = Append(smiInput, smiPending[1])
    /\ smiPending' = <<>>
    /\ inPc' = "send"
    /\ UNCHANGED <<routine, smiBuffer, smiOutput, outPc, outputFlitData>>
    /\ UNCHANGED <<mgrVars, arbVars, envVars>>

\* smiBuffer <- inputFlitData; hasNextInputFlit = inputFlitData.Eofc == 0
ForwardIngressSend ==
    /\ routine = "forward"
    /\ inPc = "send"
    /\ Len(smiBuffer) < SmiBufferSize
    /\ smiBuffer' = Append(smiBuffer, inputFlitData)
    /\ inPc' = IF inputFlitData.eofc = 0 THEN "recv" ELSE "done"
    /\ UNCHANGED <<routine, smiPending, smiInput, smiOutput, inputFlitData, outPc,
                   outputFlitData>>
    /\ UNCHANGED <<mgrVars, arbVars, envVars>>

\* Mutant: the egress loop starts only when the ingress goroutine is done.
ForwardEgressRecvAfterIngress ==
    /\ routine = "forward"
    /\ outPc = "recv"
    /\ inPc = "done"
    /\ smiBuffer # <<>>
    /\ outputFlitData' = Head(smiBuffer)
    /\ smiBuffer' = Tail(smiBuffer)
    /\ outPc' = "send"
    /\ UNCHANGED <<routine, smiPending, smiInput, smiOutput, inPc, inputFlitData>>
    /\ UNCHANGED <<mgrVars, arbVars, envVars>>

\* outputFlitData := <-smiBuffer
ForwardEgressRecv ==
    /\ routine = "forward"
    /\ outPc = "recv"
    /\ smiBuffer # <<>>
    /\ outputFlitData' = Head(smiBuffer)
    /\ smiBuffer' = Tail(smiBuffer)
    /\ outPc' = "send"
    /\ UNCHANGED <<routine, smiPending, smiInput, smiOutput, inPc, inputFlitData>>
    /\ UNCHANGED <<mgrVars, arbVars, envVars>>

\* Mutant: the egress loop is wrapped in an endless loop.
ForwardEgressSendForever ==
    /\ routine = "forward"
    /\ outPc = "send"
    /\ smiOutput' = Append(smiOutput, outputFlitData)
    /\ outPc' = "recv"
    /\ UNCHANGED <<routine, smiPending, smiInput, smiBuffer, inPc, inputFlitData,
                   outputFlitData>>
    /\ UNCHANGED <<mgrVars, arbVars, envVars>>

\* smiOutput <- outputFlitData; hasNextOutputFlit = outputFlitData.Eofc == 0
ForwardEgressSend ==
    /\ routine = "forward"
    /\ outPc = "send"
    /\ smiOutput' = Append(smiOutput, outputFlitData)
    /\ outPc' = IF outputFlitData.eofc = 0 THEN "recv" ELSE "done"
    /\ UNCHANGED <<routine, smiPending, smiInput, smiBuffer, inPc, inputFlitData,
                   outputFlitData>>
    /\ UNCHANGED <<mgrVars, arbVars, envVars>>

(***************************************************************************)
(* AssembleFrame64: the ingress loop, then the egress loop, in one flow.   *)
(* inPc = "idle" while the routine is in the egress loop or has returned;  *)
(* outPc = "idle" while it is in the ingress loop.                         *)
(***************************************************************************)
AssembleIngressRecv ==
    /\ routine = "assemble"
    /\ inPc = "recv"
    /\ smiPending # <<>>
    /\ inputFlitData' = smiPending[1]
    /\ smiInput' = Append(smiInput, smiPending[1])
    /\ smiPending' = <<>>
    /\ inPc' = "send"
    /\ UNCHANGED <<routine, smiBuffer, smiOutput, outPc, outputFlitData>>
    /\ UNCHANGED <<mgrVars, arbVars, envVars>>

\* Mutant: smiBuffer takes any number of flits.
AssembleIngressSendUnbounded ==
    /\ routine = "assemble"
    /\ inPc = "send"
    /\ smiBuffer' = Append(smiBuffer, inputFlitData)
    /\ IF inputFlitData.eofc = 0
         THEN inPc' = "recv" /\ outPc' = outPc
         ELSE inPc' = "idle" /\ outPc' = "recv"
    /\ UNCHANGED <<routine, smiPending, smiInput, smiOutput, inputFlitData,
                   outputFlitData>>
    /\ UNCHANGED <<mgrVars, arbVars, envVars>>

\* Mutant: the ingress loop tests Eofc the wrong way round.
AssembleIngressSendInverted ==
    /\ routine = "assemble"
    /\ inPc = "send"
    /\ Len(smiBuffer) < SmiBufferSize
    /\ smiBuffer' = Append(smiBuffer, inputFlitData)
    /\ IF inputFlitData.eofc # 0
         THEN inPc' = "recv" /\ outPc' = outPc
         ELSE inPc' = "idle" /\ outPc' = "recv"
    /\ UNCHANGED <<routine, smiPending, smiInput, smiOutput, inputFlitData,
                   outputFlitData>>
    /\ UNCHANGED <<mgrVars, arbVars, envVars>>

AssembleIngressSend ==
    /\ routine = "assemble"
    /\ inPc = "send"
    /\ Len(smiBuffer) < SmiBufferSize
    /\ smiBuffer' = Append(smiBuffer, inputFlitData)
    /\ IF inputFlitData.eofc = 0
         THEN inPc' = "recv" /\ outPc' = outPc
         ELSE inPc' = "idle" /\ outPc' = "recv"
    /\ UNCHANGED <<routine, smiPending, smiInput, smiOutput, inputFlitData,
                   outputFlitData>>
    /\ UNCHANGED <<mgrVars, arbVars, envVars>>

AssembleEgressRecv ==
    /\ routine = "assemble"
    /\ outPc = "recv"
    /\ smiBuffer # <<>>
    /\ outputFlitData' = Head(smiBuffer)
    /\ smiBuffer' = Tail(smiBuffer)
    /\ outPc' = "send"
    /\ UNCHANGED <<routine, smiPending, smiInput, smiOutput, inPc, inputFlitData>>
    /\ UNCHANGED <<mgrVars, arbVars, envVars>>

AssembleEgressSend ==
    /\ routine = "assemble"
    /\ outPc = "send"
    /\ smiOutput' = Append(smiOutput, outputFlitData)
    /\ outPc' = IF outputFlitData.eofc = 0 THEN "recv" ELSE "done"
    /\ UNCHANGED <<routine, smiPending, smiInput, smiBuffer, inPc, inputFlitData,
                   outputFlitData>>
    /\ UNCHANGED <<mgrVars, arbVars, envVars>>

(***************************************************************************)
(* The arbiter and its port managers.                                      *)
(***************************************************************************)
Ports == 1..nPorts

\* Flits of a log that start a frame, and their number.
IsHeaderAt(log, i) == i = 1 \/ log[i - 1].eofc # 0
HeaderIdx(log) == {i \in 1..Len(log) : IsHeaderAt(log, i)}
Headers(log) == {log[i] : i \in HeaderIdx(log)}

\* Sum of f over the ports 1..n.
RECURSIVE SumTo(_, _)
SumTo(f, n) == IF n = 0 THEN 0 ELSE f[n] + SumTo(f, n - 1)

\* What the producers on n ports may be going to send: flits[p] is the number
\* of flits port p sends at most, len the length of the longest frame (of a
\* request and of a response), whole tells whether a producer ends its frame
\* with its last flit or may stop in the middle of a frame. Either one port
\* sends a burst of single-flit frames, or MaxSenders neighbouring ports send
\* MaxReqFlits flits between them.
Workloads(n) ==
    {[flits |-> [p \in 1..n |-> IF p = k THEN MaxBurst ELSE 0], len |-> 1,
      whole |-> FALSE] : k \in 1..n}
    \cup
    {[flits |-> f, len |-> MaxFrameLen, whole |-> FALSE] :
        f \in {g \in [1..n -> 0..MaxFrameLen] :
                  /\ SumTo(g, n) = MaxReqFlits
                  /\ \E k \in 1..n : \A p \in 1..n :
                        g[p] > 0 => p \in k..(k + MaxSenders - 1)}}

\* With a downstream that sends any frames: the last port sends MaxAnyReq flits.
AnyWorkloads(n) ==
    {[flits |-> [p \in 1..n |-> IF p = n THEN MaxAnyReq ELSE 0], len |-> MaxFrameLen,
      whole |-> FALSE]}

\* Finite workloads of well-formed frames: every producer ends its last frame.
\* The last two ports send, the last one at least as much as the other.
LiveWorkloads(n) ==
    {[w EXCEPT !.whole = TRUE] :
        w \in {v \in Workloads(n) :
                  /\ \A p \in 1..n : v.flits[p] > 0 => p >= n - 1
                  /\ v.flits[n] >= v.flits[n - 1]}}

\* A port with more requests than tags beside a port with a frame to send:
\* the last port sends MaxBurst flits, the port before it one frame.
ExhaustWorkloads(n) ==
    {[flits |-> [p \in 1..n |-> IF p = n THEN MaxBurst
                                ELSE IF p = n - 1 THEN MaxFrameLen ELSE 0],
      len |-> MaxFrameLen, whole |-> TRUE]}

\* Data[2] and Data[3] of the headers a producer sends are the low and the
\* high byte of its own 16-bit transaction tag, which it counts up per frame.
UpstreamTag(p, serial) == (255 * serial + p) % 65536
HeaderBytes(p, serial) == <<UpstreamTag(p, serial) % 256, UpstreamTag(p, serial) \div 256>>

\* The next flit of the well-formed frame stream of upstream port p.
UpstreamFlits(p) ==
    LET log == upstreamRequest[p]
        new == log = <<>> \/ Last(log).eofc # 0
        mark == IF new THEN <<p, Cardinality(HeaderIdx(log)) + 1, 0>>
                ELSE <<p, Last(log).pl[2], Last(log).pl[3] + 1>>
        last == workload.whole /\ Len(log) + 1 >= workload.flits[p]
        ends == IF mark[3] + 1 >= workload.len \/ last THEN EofcVals \ {0} ELSE EofcVals
        b == IF new THEN HeaderBytes(p, mark[2]) ELSE UpstreamBodyBytes
    IN IF Len(log) >= workload.flits[p] THEN {}
       ELSE {[d2 |-> b[1], d3 |-> b[2], eofc |-> e, pl |-> mark] : e \in ends}

(***************************************************************************)
(* manageUpstreamPort, request goroutine.                                  *)
(***************************************************************************)
\* headerFlit := <-upstreamRequest
MgrReqHeader(p) ==
    /\ ~panicked
    /\ rqPc[p] = "hdr"
    /\ \E f \in UpstreamFlits(p) :
         /\ rqFlit' = [rqFlit EXCEPT ![p] = f]
         /\ upstreamRequest' = [upstreamRequest EXCEPT ![p] = Append(@, f)]
    /\ rqPc' = [rqPc EXCEPT ![p] = "lease"]
    /\ UNCHANGED <<rqTag, rsPc, rsFlit, rsTag, tagTableLower, tagTableUpper, tagFifo>>
    /\ UNCHANGED <<bufVars, arbVars, workload, upstreamResponse, downstreamRequest,
                   downstreamResponse>>

\* Mutant: the tag is read from tagFifo but left in it.
MgrReqLeasePeek(p) ==
    /\ ~panicked
    /\ rqPc[p] = "lease"
    /\ tagFifo[p] # <<>>
    /\ rqTag' = [rqTag EXCEPT ![p] = Head(tagFifo[p])]
    /\ rqPc' = [rqPc EXCEPT ![p] = "store"]
    /\ UNCHANGED <<rqFlit, rsPc, rsFlit, rsTag, tagTableLower, tagTableUpper, tagFifo>>
    /\ UNCHANGED <<bufVars, arbVars, envVars>>

\* tagId := <-tagFifo
MgrReqLease(p) ==
    /\ ~panicked
    /\ rqPc[p] = "lease"
    /\ tagFifo[p] # <<>>
    /\ rqTag' = [rqTag EXCEPT ![p] = Head(tagFifo[p])]
    /\ tagFifo' = [tagFifo EXCEPT ![p] = Tail(@)]
    /\ rqPc' = [rqPc EXCEPT ![p] = "store"]
    /\ UNCHANGED <<rqFlit, rsPc, rsFlit, rsTag, tagTableLower, tagTableUpper>>
    /\ UNCHANGED <<bufVars, arbVars, envVars>>

\* Mutant: port id and tag are written to each other's offset.
MgrReqStoreSwapped(p) ==
    /\ ~panicked
    /\ rqPc[p] = "store"
    /\ tagTableLower' = [tagTableLower EXCEPT ![p][rqTag[p]] = rqFlit[p].d2]
    /\ tagTableUpper' = [tagTableUpper EXCEPT ![p][rqTag[p]] = rqFlit[p].d3]
    /\ rqFlit' = [rqFlit EXCEPT ![p].d2 = rqTag[p], ![p].d3 = p]
    /\ rqPc' = [rqPc EXCEPT ![p] = "signal"]
    /\ UNCHANGED <<rqTag, rsPc, rsFlit, rsTag, tagFifo>>
    /\ UNCHANGED <<bufVars, arbVars, envVars>>

\* tagTableLower[tagId] = Data[2]; tagTableUpper[tagId] = Data[3];
\* Data[2] = portId; Data[3] = tagId
MgrReqStore(p) ==
    /\ ~panicked
    /\ rqPc[p] = "store"
    /\ tagTableLower' = [tagTableLower EXCEPT ![p][rqTag[p]] = rqFlit[p].d2]
    /\ tagTableUpper' = [tagTableUpper EXCEPT ![p][rqTag[p]] = rqFlit[p].d3]
    /\ rqFlit' = [rqFlit EXCEPT ![p].d2 = p, ![p].d3 = rqTag[p]]
    /\ rqPc' = [rqPc EXCEPT ![p] = "signal"]
    /\ UNCHANGED <<rqTag, rsPc, rsFlit, rsTag, tagFifo>>
    /\ UNCHANGED <<bufVars, arbVars, envVars>>

\* transferReq <- portId
MgrReqSignal(p) ==
    /\ ~panicked
    /\ rqPc[p] = "signal"
    /\ Len(transferReq[p]) < ChanSize
    /\ transferReq' = [transferReq EXCEPT ![p] = Append(@, p)]
    /\ rqPc' = [rqPc EXCEPT ![p] = "fwdhdr"]
    /\ UNCHANGED <<nPorts, taggedRequest, taggedResponse, arPc, arPortId, reqFlit,
                   asPc, portId, isHeaderFlit, respFlit, panicked>>
    /\ UNCHANGED <<rqFlit, rqTag, rsPc, rsFlit, rsTag, tagTableLower, tagTableUpper,
                   tagFifo>>
    /\ UNCHANGED <<bufVars, envVars>>

\* taggedRequest <- headerFlit; moreFlits := headerFlit.Eofc == 0
MgrReqForwardHeader(p) ==
    /\ ~panicked
    /\ rqPc[p] = "fwdhdr"
    /\ Len(taggedRequest[p]) < ChanSize
    /\ taggedRequest' = [taggedRequest EXCEPT ![p] = Append(@, rqFlit[p])]
    /\ rqPc' = [rqPc EXCEPT ![p] = IF rqFlit[p].eofc = 0 THEN "body" ELSE "hdr"]
    /\ UNCHANGED <<nPorts, taggedResponse, transferReq, arPc, arPortId, reqFlit,
                   asPc, portId, isHeaderFlit, respFlit, panicked>>
    /\ UNCHANGED <<rqFlit, rqTag, rsPc, rsFlit, rsTag, tagTableLower, tagTableUpper,
                   tagFifo>>
    /\ UNCHANGED <<bufVars, envVars>>

\* bodyFlit := <-upstreamRequest; moreFlits = bodyFlit.Eofc == 0
MgrReqBody(p) ==
    /\ ~panicked
    /\ rqPc[p] = "body"
    /\ \E f \in UpstreamFlits(p) :
         /\ rqFlit' = [rqFlit EXCEPT ![p] = f]
         /\ upstreamRequest' = [upstreamRequest EXCEPT ![p] = Append(@, f)]
    /\ rqPc' = [rqPc EXCEPT ![p] = "fwdbody"]
    /\ UNCHANGED <<rqTag, rsPc, rsFlit, rsTag, tagTableLower, tagTableUpper, tagFifo>>
    /\ UNCHANGED <<bufVars, arbVars, workload, upstreamResponse, downstreamRequest,
                   downstreamResponse>>

\* Mutant: body flits get the port id and the tag like the header.
MgrReqForwardBodyStamped(p) ==
    /\ ~panicked
    /\ rqPc[p] = "fwdbody"
    /\ Len(taggedRequest[p]) < ChanSize
    /\ taggedRequest' = [taggedRequest EXCEPT
                            ![p] = Append(@, [rqFlit[p] EXCEPT !.d2 = p, !.d3 = rqTag[p]])]
    /\ rqPc' = [rqPc EXCEPT ![p] = IF rqFlit[p].eofc = 0 THEN "body" ELSE "hdr"]
    /\ UNCHANGED <<nPorts, taggedResponse, transferReq, arPc, arPortId, reqFlit,
                   asPc, portId, isHeaderFlit, respFlit, panicked>>
    /\ UNCHANGED <<rqFlit, rqTag, rsPc, rsFlit, rsTag, tagTableLower, tagTableUpper,
                   tagFifo>>
    /\ UNCHANGED <<bufVars, envVars>>

\* taggedRequest <- bodyFlit
MgrReqForwardBody(p) ==
    /\ ~panicked
    /\ rqPc[p] = "fwdbody"
    /\ Len(taggedRequest[p]) < ChanSize
    /\ taggedRequest' = [taggedRequest EXCEPT ![p] = Append(@, rqFlit[p])]
    /\ rqPc' = [rqPc EXCEPT ![p] = IF rqFlit[p].eofc = 0 THEN "body" ELSE "hdr"]
    /\ UNCHANGED <<nPorts, taggedResponse, transferReq, arPc, arPortId, reqFlit,
                   asPc, portId, isHeaderFlit, respFlit, panicked>>
    /\ UNCHANGED <<rqFlit, rqTag, rsPc, rsFlit, rsTag, tagTableLower, tagTableUpper,
                   tagFifo>>
    /\ UNCHANGED <<bufVars, envVars>>

(***************************************************************************)
(* manageUpstreamPort, response loop.                                      *)
(***************************************************************************)
\* Mutant: the tag goes back into tagFifo as soon as the header is received,
\* before the tables are read.
MgrRespHeaderEarlyRelease(p) ==
    /\ ~panicked
    /\ rsPc[p] = "hdr"
    /\ taggedResponse[p] # <<>>
    /\ Len(tagFifo[p]) < SmiMemInFlightLimit
    /\ rsFlit' = [rsFlit EXCEPT ![p] = Head(taggedResponse[p])]
    /\ rsTag' = [rsTag EXCEPT ![p] = Head(taggedResponse[p]).d3]
    /\ tagFifo' = [tagFifo EXCEPT ![p] = Append(@, Head(taggedResponse[p]).d3)]
    /\ taggedResponse' = [taggedResponse EXCEPT ![p] = Tail(@)]
    /\ rsPc' = [rsPc EXCEPT ![p] = "restore"]
    /\ UNCHANGED <<nPorts, taggedRequest, transferReq, arPc, arPortId, reqFlit,
                   asPc, portId, isHeaderFlit, respFlit, panicked>>
    /\ UNCHANGED <<rqPc, rqFlit, rqTag, tagTableLower, tagTableUpper>>
    /\ UNCHANGED <<bufVars, envVars>>

\* headerFlit := <-taggedResponse; tagId := headerFlit.Data[3]
MgrRespHeader(p) ==
    /\ ~panicked
    /\ rsPc[p] = "hdr"
    /\ taggedResponse[p] # <<>>
    /\ rsFlit' = [rsFlit EXCEPT ![p] = Head(taggedResponse[p])]
    /\ rsTag' = [rsTag EXCEPT ![p] = Head(taggedResponse[p]).d3]
    /\ taggedResponse' = [taggedResponse EXCEPT ![p] = Tail(@)]
    /\ rsPc' = [rsPc EXCEPT ![p] = "restore"]
    /\ UNCHANGED <<nPorts, taggedRequest, transferReq, arPc, arPortId, reqFlit,
                   asPc, portId, isHeaderFlit, respFlit, panicked>>
    /\ UNCHANGED <<rqPc, rqFlit, rqTag, tagTableLower, tagTableUpper, tagFifo>>
    /\ UNCHANGED <<bufVars, envVars>>

\* Mutant: the two tables are read into each other's offset.
MgrRespRestoreSwapped(p) ==
    /\ ~panicked
    /\ rsPc[p] = "restore"
    /\ IF rsTag[p] \in 0..(SmiMemInFlightLimit - 1)
         THEN /\ rsFlit' = [rsFlit EXCEPT ![p].d2 = tagTableUpper[p][rsTag[p]],
                                          ![p].d3 = tagTableLower[p][rsTag[p]]]
              /\ rsPc' = [rsPc EXCEPT ![p] = "release"]
              /\ UNCHANGED panicked
         ELSE /\ panicked' = TRUE
              /\ UNCHANGED <<rsFlit, rsPc>>
    /\ UNCHANGED <<nPorts, taggedRequest, taggedResponse, transferReq, arPc,
                   arPortId, reqFlit, asPc, portId, isHeaderFlit, respFlit>>
    /\ UNCHANGED <<rqPc, rqFlit, rqTag, rsTag, tagTableLower, tagTableUpper, tagFifo>>
    /\ UNCHANGED <<bufVars, envVars>>

\* Data[2] = tagTableLower[tagId]; Data[3] = tagTableUpper[tagId].
\* The tables are [4]uint8: indexing with tagId > 3 is a run-time panic.
MgrRespRestore(p) ==
    /\ ~panicked
    /\ rsPc[p] = "restore"
    /\ IF rsTag[p] \in 0..(SmiMemInFlightLimit - 1)
         THEN /\ rsFlit' = [rsFlit EXCEPT ![p].d2 = tagTableLower[p][rsTag[p]],
                                          ![p].d3 = tagTableUpper[p][rsTag[p]]]
              /\ rsPc' = [rsPc EXCEPT ![p] = "release"]
              /\ UNCHANGED panicked
         ELSE /\ panicked' = TRUE
              /\ UNCHANGED <<rsFlit, rsPc>>
    /\ UNCHANGED <<nPorts, taggedRequest, taggedResponse, transferReq, arPc,
                   arPortId, reqFlit, asPc, portId, isHeaderFlit, respFlit>>
    /\ UNCHANGED <<rqPc, rqFlit, rqTag, rsTag, tagTableLower, tagTableUpper, tagFifo>>
    /\ UNCHANGED <<bufVars, envVars>>

\* Mutant: Data[3] of the restored header is put into tagFifo, not tagId.
MgrRespReleaseRestoredByte(p) ==
    /\ ~panicked
    /\ rsPc[p] = "release"
    /\ Len(tagFifo[p]) < SmiMemInFlightLimit
    /\ tagFifo' = [tagFifo EXCEPT ![p] = Append(@, rsFlit[p].d3)]
    /\ rsPc' = [rsPc EXCEPT ![p] = "fwdhdr"]
    /\ UNCHANGED <<rqPc, rqFlit, rqTag, rsFlit, rsTag, tagTableLower, tagTableUpper>>
    /\ UNCHANGED <<bufVars, arbVars, envVars>>

\* Mutant: the tag is not put back into tagFifo.
MgrRespReleaseNever(p) ==
    /\ ~panicked
    /\ rsPc[p] = "release"
    /\ rsPc' = [rsPc EXCEPT ![p] = "fwdhdr"]
    /\ UNCHANGED <<rqPc, rqFlit, rqTag, rsFlit, rsTag, tagTableLower, tagTableUpper,
                   tagFifo>>
    /\ UNCHANGED <<bufVars, arbVars, envVars>>

\* tagFifo <- tagId
MgrRespRelease(p) ==
    /\ ~panicked
    /\ rsPc[p] = "release"
    /\ Len(tagFifo[p]) < SmiMemInFlightLimit
    /\ tagFifo' = [tagFifo EXCEPT ![p] = Append(@, rsTag[p])]
    /\ rsPc' = [rsPc EXCEPT ![p] = "fwdhdr"]
    /\ UNCHANGED <<rqPc, rqFlit, rqTag, rsFlit, rsTag, tagTableLower, tagTableUpper>>
    /\ UNCHANGED <<bufVars, arbVars, envVars>>

\* upstreamResponse <- headerFlit; moreFlits := headerFlit.Eofc == 0
MgrRespForwardHeader(p) ==
    /\ ~panicked
    /\ rsPc[p] = "fwdhdr"
    /\ upstreamResponse' = [upstreamResponse EXCEPT ![p] = Append(@, rsFlit[p])]
    /\ rsPc' = [rsPc EXCEPT ![p] = IF rsFlit[p].eofc = 0 THEN "body" ELSE "hdr"]
    /\ UNCHANGED <<rqPc, rqFlit, rqTag, rsFlit, rsTag, tagTableLower, tagTableUpper,
                   tagFifo>>
    /\ UNCHANGED <<bufVars, arbVars, workload, upstreamRequest, downstreamRequest,
                   downstreamResponse>>

\* bodyFlit := <-taggedResponse; moreFlits = bodyFlit.Eofc == 0
MgrRespBody(p) ==
    /\ ~panicked
    /\ rsPc[p] = "body"
    /\ taggedResponse[p] # <<>>
    /\ rsFlit' = [rsFlit EXCEPT ![p] = Head(taggedResponse[p])]
    /\ taggedResponse' = [taggedResponse EXCEPT ![p] = Tail(@)]
    /\ rsPc' = [rsPc EXCEPT ![p] = "fwdbody"]
    /\ UNCHANGED <<nPorts, taggedRequest, transferReq, arPc, arPortId, reqFlit,
                   asPc, portId, isHeaderFlit, respFlit, panicked>>
    /\ UNCHANGED <<rqPc, rqFlit, rqTag, rsTag, tagTableLower, tagTableUpper, tagFifo>>
    /\ UNCHANGED <<bufVars, envVars>>

\* upstreamResponse <- bodyFlit
MgrRespForwardBody(p) ==
    /\ ~panicked
    /\ rsPc[p] = "fwdbody"
    /\ upstreamResponse' = [upstreamResponse EXCEPT ![p] = Append(@, rsFlit[p])]
    /\ rsPc' = [rsPc EXCEPT ![p] = IF rsFlit[p].eofc = 0 THEN "body" ELSE "hdr"]
    /\ UNCHANGED <<rqPc, rqFlit, rqTag, rsFlit, rsTag, tagTableLower, tagTableUpper,
                   tagFifo>>
    /\ UNCHANGED <<bufVars, arbVars, workload, upstreamRequest, downstreamRequest,
                   downstreamResponse>>

(***************************************************************************)
(* ArbitrateX2 / ArbitrateX3 / ArbitrateX4, request-side goroutine.         *)
(***************************************************************************)
\* Mutant: the arbiter polls the ports: it picks one whether or not it has
\* raised its ready signal, and takes the signal if there is one.
ArbSelectUnsignalled ==
    /\ ~panicked
    /\ arPc = "select"
    /\ \E p \in Ports :
         /\ arPortId' = p
         /\ transferReq' = [transferReq EXCEPT
                               ![p] = IF @ = <<>> THEN @ ELSE Tail(@)]
    /\ arPc' = "recv"
    /\ UNCHANGED <<nPorts, taggedRequest, taggedResponse, reqFlit, asPc, portId,
                   isHeaderFlit, respFlit, panicked>>
    /\ UNCHANGED <<bufVars, mgrVars, envVars>>

\* Mutant: the ready signal is read but left in its channel.
ArbSelectPeek ==
    /\ ~panicked
    /\ arPc = "select"
    /\ \E p \in Ports :
         /\ transferReq[p] # <<>>
         /\ arPortId' = Head(transferReq[p])
    /\ arPc' = "recv"
    /\ UNCHANGED <<nPorts, taggedRequest, taggedResponse, transferReq, reqFlit, asPc,
                   portId, isHeaderFlit, respFlit, panicked>>
    /\ UNCHANGED <<bufVars, mgrVars, envVars>>

\* select { case portId = <-transferReqA: ... }
ArbSelect ==
    /\ ~panicked
    /\ arPc = "select"
    /\ \E p \in Ports :
         /\ transferReq[p] # <<>>
         /\ arPortId' = Head(transferReq[p])
         /\ transferReq' = [transferReq EXCEPT ![p] = Tail(@)]
    /\ arPc' = "recv"
    /\ UNCHANGED <<nPorts, taggedRequest, taggedResponse, reqFlit, asPc, portId,
                   isHeaderFlit, respFlit, panicked>>
    /\ UNCHANGED <<bufVars, mgrVars, envVars>>

\* switch portId { case 1: A; case 2: B; ...; default: the last port }
RequestChannel(id) == IF id \in 1..(nPorts - 1) THEN id ELSE nPorts

\* Mutant: the flit is read from the channel but left in it.
ArbReqRecvPeek ==
    /\ ~panicked
    /\ arPc = "recv"
    /\ taggedRequest[RequestChannel(arPortId)] # <<>>
    /\ reqFlit' = Head(taggedRequest[RequestChannel(arPortId)])
    /\ arPc' = "send"
    /\ UNCHANGED <<nPorts, taggedRequest, taggedResponse, transferReq, arPortId, asPc,
                   portId, isHeaderFlit, respFlit, panicked>>
    /\ UNCHANGED <<bufVars, mgrVars, envVars>>

\* reqFlit = <-taggedRequestX
ArbReqRecv ==
    /\ ~panicked
    /\ arPc = "recv"
    /\ taggedRequest[RequestChannel(arPortId)] # <<>>
    /\ reqFlit' = Head(taggedRequest[RequestChannel(arPortId)])
    /\ taggedRequest' = [taggedRequest EXCEPT ![RequestChannel(arPortId)] = Tail(@)]
    /\ arPc' = "send"
    /\ UNCHANGED <<nPorts, taggedResponse, transferReq, arPortId, asPc, portId,
                   isHeaderFlit, respFlit, panicked>>
    /\ UNCHANGED <<bufVars, mgrVars, envVars>>

\* Mutant: the flit goes to the head of the stream, ahead of what was sent.
ArbReqSendAhead ==
    /\ ~panicked
    /\ arPc = "send"
    /\ downstreamRequest' = <<reqFlit>> \o downstreamRequest
    /\ arPc' = IF reqFlit.eofc = 0 THEN "recv" ELSE "select"
    /\ UNCHANGED <<nPorts, taggedRequest, taggedResponse, transferReq, arPortId,
                   reqFlit, asPc, portId, isHeaderFlit, respFlit, panicked>>
    /\ UNCHANGED <<bufVars, mgrVars, workload, upstreamRequest, upstreamResponse,
                   downstreamResponse>>

\* Mutant: the arbiter selects again after every flit.
ArbReqSendReselect ==
    /\ ~panicked
    /\ arPc = "send"
    /\ downstreamRequest' = Append(downstreamRequest, reqFlit)
    /\ arPc' = "select"
    /\ UNCHANGED <<nPorts, taggedRequest, taggedResponse, transferReq, arPortId,
                   reqFlit, asPc, portId, isHeaderFlit, respFlit, panicked>>
    /\ UNCHANGED <<bufVars, mgrVars, workload, upstreamRequest, upstreamResponse,
                   downstreamResponse>>

\* downstreamRequest <- reqFlit; moreFlits = reqFlit.Eofc == 0
ArbReqSend ==
    /\ ~panicked
    /\ arPc = "send"
    /\ downstreamRequest' = Append(downstreamRequest, reqFlit)
    /\ arPc' = IF reqFlit.eofc = 0 THEN "recv" ELSE "select"
    /\ UNCHANGED <<nPorts, taggedRequest, taggedResponse, transferReq, arPortId,
                   reqFlit, asPc, portId, isHeaderFlit, respFlit, panicked>>
    /\ UNCHANGED <<bufVars, mgrVars, workload, upstreamRequest, upstreamResponse,
                   downstreamResponse>>

(***************************************************************************)
(* The downstream side of downstreamResponse.                              *)
(***************************************************************************)
RespEnds(idx) == IF idx + 1 >= workload.len THEN EofcVals \ {0} ELSE EofcVals

\* A downstream that answers each request frame it has seen the header of at
\* most once, in any order, with a well-formed frame whose header carries the
\* request header's bytes at offsets 2 and 3.
MatchingResponses ==
    LET log == downstreamResponse
        answered == {<<h.pl[1], h.pl[2]>> : h \in Headers(log)}
        open == {h \in Headers(downstreamRequest) :
                    <<h.pl[1], h.pl[2]>> \notin answered}
    IN IF log = <<>> \/ Last(log).eofc # 0
         THEN {[d2 |-> h.d2, d3 |-> h.d3, eofc |-> e,
                pl |-> <<h.pl[1], h.pl[2], 0>>] : h \in open, e \in RespEnds(0)}
         ELSE {[d2 |-> DownstreamBodyBytes[1], d3 |-> DownstreamBodyBytes[2], eofc |-> e,
                pl |-> <<Last(log).pl[1], Last(log).pl[2], Last(log).pl[3] + 1>>] :
                   e \in RespEnds(Last(log).pl[3] + 1)}

\* A downstream that sends well-formed frames with any header bytes.
AnyResponses ==
    LET log == downstreamResponse
    IN IF Len(log) >= MaxAnyFlits THEN {}
       ELSE IF log = <<>> \/ Last(log).eofc # 0
         THEN {[d2 |-> id, d3 |-> t, eofc |-> e,
                pl |-> <<0, Cardinality(HeaderIdx(log)) + 1, 0>>] :
                   id \in AnyPortIds, t \in AnyTags, e \in RespEnds(0)}
         ELSE {[d2 |-> DownstreamBodyBytes[1], d3 |-> DownstreamBodyBytes[2], eofc |-> e,
                pl |-> <<0, Last(log).pl[2], Last(log).pl[3] + 1>>] :
                   e \in RespEnds(Last(log).pl[3] + 1)}

(***************************************************************************)
(* ArbitrateXn, response steering loop.                                    *)
(***************************************************************************)
\* Mutant: portId is taken from every flit, not only from a header.
ArbRespRecvEveryFlit(flits) ==
    /\ ~panicked
    /\ asPc = "recv"
    /\ \E f \in flits :
         /\ respFlit' = f
         /\ portId' = f.d2
         /\ downstreamResponse' = Append(downstreamResponse, f)
    /\ asPc' = "route"
    /\ UNCHANGED <<nPorts, taggedRequest, taggedResponse, transferReq, arPc,
                   arPortId, reqFlit, isHeaderFlit, panicked>>
    /\ UNCHANGED <<bufVars, mgrVars, workload, upstreamRequest, upstreamResponse,
                   downstreamRequest>>

\* respFlit := <-downstreamResponse; if isHeaderFlit { portId = Data[2] }
ArbRespRecv(flits) ==
    /\ ~panicked
    /\ asPc = "recv"
    /\ \E f \in flits :
         /\ respFlit' = f
         /\ portId' = IF isHeaderFlit THEN f.d2 ELSE portId
         /\ downstreamResponse' = Append(downstreamResponse, f)
    /\ asPc' = "route"
    /\ UNCHANGED <<nPorts, taggedRequest, taggedResponse, transferReq, arPc,
                   arPortId, reqFlit, isHeaderFlit, panicked>>
    /\ UNCHANGED <<bufVars, mgrVars, workload, upstreamRequest, upstreamResponse,
                   downstreamRequest>>

\* Mutant: the default case sends to the last port, as on the request side.
ArbRespRouteDefaultLast ==
    /\ ~panicked
    /\ asPc = "route"
    /\ Len(taggedResponse[RequestChannel(portId)]) < ChanSize
    /\ taggedResponse' =
          [taggedResponse EXCEPT ![RequestChannel(portId)] = Append(@, respFlit)]
    /\ isHeaderFlit' = (respFlit.eofc # 0)
    /\ asPc' = "recv"
    /\ UNCHANGED <<nPorts, taggedRequest, transferReq, arPc, arPortId, reqFlit,
                   portId, respFlit, panicked>>
    /\ UNCHANGED <<bufVars, mgrVars, envVars>>

\* Mutant: isHeaderFlit is updated only when the flit was sent to a port.
ArbRespRouteKeepOnDiscard ==
    /\ ~panicked
    /\ asPc = "route"
    /\ IF portId \in Ports
         THEN /\ Len(taggedResponse[portId]) < ChanSize
              /\ taggedResponse' = [taggedResponse EXCEPT ![portId] = Append(@, respFlit)]
              /\ isHeaderFlit' = (respFlit.eofc # 0)
         ELSE UNCHANGED <<taggedResponse, isHeaderFlit>>
    /\ asPc' = "recv"
    /\ UNCHANGED <<nPorts, taggedRequest, transferReq, arPc, arPortId, reqFlit,
                   portId, respFlit, panicked>>
    /\ UNCHANGED <<bufVars, mgrVars, envVars>>

\* switch portId { case k: taggedResponseK <- respFlit; default: discard }
\* isHeaderFlit = respFlit.Eofc != 0
ArbRespRoute ==
    /\ ~panicked
    /\ asPc = "route"
    /\ IF portId \in Ports
         THEN /\ Len(taggedResponse[portId]) < ChanSize
              /\ taggedResponse' = [taggedResponse EXCEPT ![portId] = Append(@, respFlit)]
         ELSE UNCHANGED taggedResponse
    /\ isHeaderFlit' = (respFlit.eofc # 0)
    /\ asPc' = "recv"
    /\ UNCHANGED <<nPorts, taggedRequest, transferReq, arPc, arPortId, reqFlit,
                   portId, respFlit, panicked>>
    /\ UNCHANGED <<bufVars, mgrVars, envVars>>

(***************************************************************************)
(* Initial states.                                                         *)
(***************************************************************************)
BufIdle ==
    /\ smiPending = <<>>
    /\ smiInput = <<>>
    /\ smiBuffer = <<>>
    /\ smiOutput = <<>>
    /\ inputFlitData = NoFlit
    /\ outputFlitData = NoFlit

\* No arbiter was started.
ArbIdle ==
    /\ nPorts = 2
    /\ rqPc = [p \in 1..2 |-> "off"]
    /\ rqFlit = [p \in 1..2 |-> NoFlit]
    /\ rqTag = [p \in 1..2 |-> 0]
    /\ rsPc = [p \in 1..2 |-> "off"]
    /\ rsFlit = [p \in 1..2 |-> NoFlit]
    /\ rsTag = [p \in 1..2 |-> 0]
    /\ tagTableLower = [p \in 1..2 |-> [t \in 0..3 |-> 0]]
    /\ tagTableUpper = [p \in 1..2 |-> [t \in 0..3 |-> 0]]
    /\ tagFifo = [p \in 1..2 |-> <<>>]
    /\ taggedRequest = [p \in 1..2 |-> <<>>]
    /\ taggedResponse = [p \in 1..2 |-> <<>>]
    /\ transferReq = [p \in 1..2 |-> <<>>]
    /\ arPc = "off"
    /\ arPortId = 0
    /\ reqFlit = NoFlit
    /\ asPc = "off"
    /\ portId = 0
    /\ isHeaderFlit = TRUE
    /\ respFlit = NoFlit
    /\ panicked = FALSE
    /\ workload = [flits |-> [p \in 1..2 |-> 0], len |-> 1, whole |-> FALSE]
    /\ upstreamRequest = [p \in 1..2 |-> <<>>]
    /\ upstreamResponse = [p \in 1..2 |-> <<>>]
    /\ downstreamRequest = <<>>
    /\ downstreamResponse = <<>>

\* No frame routine was started.
BufOff ==
    /\ BufIdle
    /\ routine = "none"
    /\ inPc = "idle"
    /\ outPc = "idle"

\* The state after ArbitrateXn has made its channels and started its
\* goroutines, and each manageUpstreamPort has filled its tagFifo.
InitArbitrate ==
    /\ BufOff
    /\ nPorts \in {2, 3, 4}
    /\ rqPc = [p \in Ports |-> "hdr"]
    /\ rqFlit = [p \in Ports |-> NoFlit]
    /\ rqTag = [p \in Ports |-> 0]
    /\ rsPc = [p \in Ports |-> "hdr"]
    /\ rsFlit = [p \in Ports |-> NoFlit]
    /\ rsTag = [p \in Ports |-> 0]
    /\ tagTableLower = [p \in Ports |-> [t \in 0..(SmiMemInFlightLimit - 1) |-> 0]]
    /\ tagTableUpper = [p \in Ports |-> [t \in 0..(SmiMemInFlightLimit - 1) |-> 0]]
    /\ tagFifo = [p \in Ports |-> [t \in 1..SmiMemInFlightLimit |-> t - 1]]
    /\ taggedRequest = [p \in Ports |-> <<>>]
    /\ taggedResponse = [p \in Ports |-> <<>>]
    /\ transferReq = [p \in Ports |-> <<>>]
    /\ arPc = "select"
    /\ arPortId = 0
    /\ reqFlit = NoFlit
    /\ asPc = "recv"
    /\ portId = 0
    /\ isHeaderFlit = TRUE
    /\ respFlit = NoFlit
    /\ panicked = FALSE
    /\ upstreamRequest = [p \in Ports |-> <<>>]
    /\ upstreamResponse = [p \in Ports |-> <<>>]
    /\ downstreamRequest = <<>>
    /\ downstreamResponse = <<>>

Arbitrate ==
    \/ \E p \in Ports : MgrReqHeader(p)
    \/ \E p \in Ports : MgrReqLease(p)
    \/ \E p \in Ports : MgrReqStore(p)
    \/ \E p \in Ports : MgrReqSignal(p)
    \/ \E p \in Ports : MgrReqForwardHeader(p)
    \/ \E p \in Ports : MgrReqBody(p)
    \/ \E p \in Ports : MgrReqForwardBody(p)
    \/ \E p \in Ports : MgrRespHeader(p)
    \/ \E p \in Ports : MgrRespRestore(p)
    \/ \E p \in Ports : MgrRespRelease(p)
    \/ \E p \in Ports : MgrRespForwardHeader(p)
    \/ \E p \in Ports : MgrRespBody(p)
    \/ \E p \in Ports : MgrRespForwardBody(p)
    \/ ArbSelect
    \/ ArbReqRecv
    \/ ArbReqSend
    \/ ArbRespRoute

\* The arbiter with a downstream that answers the requests it was sent.
Next == Arbitrate \/ ArbRespRecv(MatchingResponses)
Init == InitArbitrate /\ workload \in Workloads(nPorts)
Spec == Init /\ [][Next]_vars

\* The same with finite workloads of well-formed frames and every goroutine,
\* every producer and the downstream scheduled fairly: a goroutine that can
\* take its next step takes it.
RequestFlow(p) ==
    /\ p \in Ports
    /\ \/ MgrReqHeader(p)
       \/ MgrReqLease(p)
       \/ MgrReqStore(p)
       \/ MgrReqSignal(p)
       \/ MgrReqForwardHeader(p)
       \/ MgrReqBody(p)
       \/ MgrReqForwardBody(p)
ResponseFlow(p) ==
    /\ p \in Ports
    /\ \/ MgrRespHeader(p)
       \/ MgrRespRestore(p)
       \/ MgrRespRelease(p)
       \/ MgrRespForwardHeader(p)
       \/ MgrRespBody(p)
       \/ MgrRespForwardBody(p)
ArbRequestFlow == ArbSelect \/ ArbReqRecv \/ ArbReqSend
ArbResponseFlow == ArbRespRecv(MatchingResponses) \/ ArbRespRoute
Fairness ==
    /\ \A p \in 1..4 : WF_vars(RequestFlow(p)) /\ WF_vars(ResponseFlow(p))
    /\ WF_vars(ArbRequestFlow)
    /\ WF_vars(ArbResponseFlow)
InitLive == InitArbitrate /\ workload \in LiveWorkloads(nPorts)
SpecLive == InitLive /\ [][Next]_vars /\ Fairness

\* The arbiter with a downstream that takes every request flit and sends
\* nothing on downstreamResponse, so that leased tags never come back: the
\* steering loop and the response loops stay blocked at their first receive,
\* the request side runs, every goroutine and producer scheduled fairly.
NextExhaust ==
    \/ \E p \in Ports : MgrReqHeader(p)
    \/ \E p \in Ports : MgrReqLease(p)
    \/ \E p \in Ports : MgrReqStore(p)
    \/ \E p \in Ports : MgrReqSignal(p)
    \/ \E p \in Ports : MgrReqForwardHeader(p)
    \/ \E p \in Ports : MgrReqBody(p)
    \/ \E p \in Ports : MgrReqForwardBody(p)
    \/ ArbSelect
    \/ ArbReqRecv
    \/ ArbReqSend
FairnessRequests ==
    /\ \A p \in 1..4 : WF_vars(RequestFlow(p))
    /\ WF_vars(ArbRequestFlow)
InitExhaust == InitArbitrate /\ workload \in ExhaustWorkloads(nPorts)
SpecExhaust == InitExhaust /\ [][NextExhaust]_vars /\ FairnessRequests

\* The arbiter with a downstream that sends any frames.
NextAny == Arbitrate \/ ArbRespRecv(AnyResponses)
InitAny == InitArbitrate /\ workload \in AnyWorkloads(nPorts)
SpecAny == InitAny /\ [][NextAny]_vars

InitFrame64 ==
    /\ BufIdle
    /\ ArbIdle
    /\ routine \in {"forward", "assemble"}
    /\ inPc = "recv"
    /\ outPc = IF routine = "forward" THEN "recv" ELSE "idle"

NextFrame64 ==
    \/ Feed
    \/ ForwardIngressRecv
    \/ ForwardIngressSend
    \/ ForwardEgressRecv
    \/ ForwardEgressSend
    \/ AssembleIngressRecv
    \/ AssembleIngressSend
    \/ AssembleEgressRecv
    \/ AssembleEgressSend

SpecFrame64 == InitFrame64 /\ [][NextFrame64]_vars

\* The same with the routine's flows scheduled fairly and a destination that
\* keeps reading smiOutput; the sender on smiInput may stop at any time.
ForwardIngressFlow == ForwardIngressRecv \/ ForwardIngressSend
ForwardEgressFlow == ForwardEgressRecv \/ ForwardEgressSend
AssembleFlow ==
    \/ AssembleIngressRecv
    \/ AssembleIngressSend
    \/ AssembleEgressRecv
    \/ AssembleEgressSend
FairnessFrame64 ==
    /\ WF_vars(ForwardIngressFlow)
    /\ WF_vars(ForwardEgressFlow)
    /\ WF_vars(AssembleFlow)
SpecFrame64Fair == SpecFrame64 /\ FairnessFrame64

\* The package as a whole: an arbiter was started, or a frame routine was.
InitAll == Init \/ InitFrame64
NextAll == Next \/ NextFrame64
SpecAll == InitAll /\ [][NextAll]_vars

(***************************************************************************)
(* Properties of the arbiter (Spec, SpecAny).                              *)
(***************************************************************************)
Range(seq) == {seq[i] : i \in 1..Len(seq)}
Count(S) == IF S THEN 1 ELSE 0

\* The environment marks the first flit of each frame it sends with index 0.
MarkedHeaders(flits) == {f \in flits : f.pl[3] = 0}

\* C1 (frame atomicity): on downstreamRequest a flit that follows a flit with
\* Eofc = 0 comes from the same upstream port and does not start a frame.
C1_FrameAtomicity ==
    \A i \in 2..Len(downstreamRequest) :
        downstreamRequest[i - 1].eofc = 0 =>
            /\ downstreamRequest[i].pl[1] = downstreamRequest[i - 1].pl[1]
            /\ downstreamRequest[i].pl[3] # 0

\* The arbiter is in the middle of one port's frame while another port has
\* raised its ready signal.
C1_Witness ==
    /\ arPc = "recv"
    /\ downstreamRequest # <<>>
    /\ Last(downstreamRequest).eofc = 0
    /\ \E b \in Ports : b # Last(downstreamRequest).pl[1] /\ transferReq[b] # <<>>

\* Request headers the manager of port p has received, and has rewritten.
ReqHeadersReceived(p) == Cardinality(MarkedHeaders(Range(upstreamRequest[p])))
Rewritten(p) == ReqHeadersReceived(p) - Count(rqPc[p] \in {"lease", "store"})

\* Response headers the manager of port p has received.
RespHeaderInHand(p) == rsPc[p] \in {"restore", "release", "fwdhdr"}
RespHeadersReceived(p) ==
    Cardinality(MarkedHeaders(Range(upstreamResponse[p]))) + Count(RespHeaderInHand(p))

\* The header of the request frame a response flit answers, as port p sent it.
OrigHeader(p, serial) ==
    CHOOSE f \in Range(upstreamRequest[p]) : f.pl = <<p, serial, 0>>

\* C2 (tag round trip): each response header delivered on upstreamResponse of
\* port p answers a request of port p and carries at offsets 2 and 3 the
\* bytes that request's header had when the manager received it.
C2_TagRoundTrip ==
    \A p \in Ports : \A h \in MarkedHeaders(Range(upstreamResponse[p])) :
        /\ h.pl[1] = p
        /\ \E f \in Range(upstreamRequest[p]) : f.pl = <<p, h.pl[2], 0>>
        /\ h.d2 = OrigHeader(p, h.pl[2]).d2
        /\ h.d3 = OrigHeader(p, h.pl[2]).d3

\* Four requests of one port were in flight and the fourth was answered
\* first; all four responses have been delivered.
C2_Witness ==
    \E p \in Ports :
        /\ Len(upstreamResponse[p]) >= 4
        /\ upstreamResponse[p][1].pl[2] = 4

\* The flits of downstreamResponse that belong to frames whose header has
\* port id k at offset 2.
FrameStart(log, i) ==
    CHOOSE j \in 1..i : IsHeaderAt(log, j) /\ \A m \in (j + 1)..i : ~IsHeaderAt(log, m)
Target(log, i) == log[FrameStart(log, i)].d2
RECURSIVE RoutedUpTo(_, _)
RoutedUpTo(k, n) ==
    IF n = 0 THEN <<>>
    ELSE IF Target(downstreamResponse, n) = k
           THEN Append(RoutedUpTo(k, n - 1), downstreamResponse[n])
           ELSE RoutedUpTo(k, n - 1)
Routed(k) == RoutedUpTo(k, Len(downstreamResponse))

\* The response flits on their way to, or delivered on, port k: delivered,
\* held by the manager, in taggedResponse, held by the steering loop.
ResponsePath(k) ==
    upstreamResponse[k]
    \o (IF rsPc[k] \in {"restore", "release", "fwdhdr", "fwdbody"}
          THEN <<rsFlit[k]>> ELSE <<>>)
    \o taggedResponse[k]
    \o (IF asPc = "route" /\ Target(downstreamResponse, Len(downstreamResponse)) = k
          THEN <<respFlit>> ELSE <<>>)

\* What no routine changes in a flit: the payload marker and Eofc.
Marks(seq) == [i \in 1..Len(seq) |-> <<seq[i].pl, seq[i].eofc>>]

\* C3 (response steering): the flits delivered to port k or on their way to
\* it are, in order, exactly the flits of the frames whose header has port id
\* k: none goes to another port, none is dropped.
C3_ResponseSteering ==
    \A k \in Ports : Marks(ResponsePath(k)) = Marks(Routed(k))

\* Two frames of two flits each for different ports followed each other on
\* downstreamResponse and have been delivered completely.
C3_Witness ==
    /\ Len(downstreamResponse) = 4
    /\ downstreamResponse[2].eofc # 0
    /\ downstreamResponse[4].eofc # 0
    /\ downstreamResponse[1].d2 # downstreamResponse[3].d2
    /\ Len(upstreamResponse[downstreamResponse[1].d2]) = 2
    /\ Len(upstreamResponse[downstreamResponse[3].d2]) = 2

\* The rewritten request headers of port p, wherever they are by now.
StampedHeaders(p) ==
    {f \in MarkedHeaders(Range(downstreamRequest)
                         \cup (IF arPc = "send" THEN {reqFlit} ELSE {})
                         \cup Range(taggedRequest[p])
                         \cup (IF rqPc[p] \in {"signal", "fwdhdr"} THEN {rqFlit[p]} ELSE {})) :
        f.pl[1] = p}
AnsweredSerials(p) ==
    {f.pl[2] : f \in MarkedHeaders(Range(upstreamResponse[p]))}
    \cup (IF RespHeaderInHand(p) THEN {rsFlit[p].pl[2]} ELSE {})
OutstandingHeaders(p) == {f \in StampedHeaders(p) : f.pl[2] \notin AnsweredSerials(p)}

\* C4 (in-flight bound): at most 4 rewritten request headers of a port are
\* without a response header received by its manager; with 4 of them a
\* further request header cannot lease a tag; the outstanding headers carry
\* pairwise different tags.
C4_InFlightBound ==
    \A p \in Ports :
        /\ Rewritten(p) - RespHeadersReceived(p) <= SmiMemInFlightLimit
        /\ Cardinality(OutstandingHeaders(p)) = Rewritten(p) - RespHeadersReceived(p)
        /\ \A f, g \in OutstandingHeaders(p) : f.d3 = g.d3 => f = g
        /\ (rqPc[p] = "lease"
              /\ Rewritten(p) - RespHeadersReceived(p) = SmiMemInFlightLimit)
             => ~ENABLED MgrReqLease(p)

\* A fifth request header waits for a tag while four are outstanding.
C4_Witness ==
    \E p \in Ports :
        /\ rqPc[p] = "lease"
        /\ ReqHeadersReceived(p) = SmiMemInFlightLimit + 1
        /\ Rewritten(p) - RespHeadersReceived(p) = SmiMemInFlightLimit

\* Request headers of port p between its manager and downstreamRequest.
HeadersInFlight(p) ==
    Count(rqPc[p] \in {"lease", "store", "signal", "fwdhdr"})
    + Cardinality(MarkedHeaders(Range(taggedRequest[p])))
    + Count(arPc = "send" /\ reqFlit.pl[3] = 0 /\ reqFlit.pl[1] = p)

\* C10 (header stamping): a header flit on downstreamRequest carries at
\* offset 2 the id of the port it was read from and at offset 3 a tag 0..3,
\* which for the port's latest frame is the tag its manager leased last; and
\* downstreamRequest carries one header per frame a port has sent, less the
\* headers still on their way.
C10_HeaderStamping ==
    /\ \A i \in HeaderIdx(downstreamRequest) :
         LET h == downstreamRequest[i]
         IN /\ h.d2 \in Ports
            /\ h.d2 = h.pl[1]
            /\ h.d3 \in 0..(SmiMemInFlightLimit - 1)
            /\ h.pl[2] = ReqHeadersReceived(h.pl[1]) => h.d3 = rqTag[h.pl[1]]
    /\ \A p \in Ports :
         Cardinality({i \in HeaderIdx(downstreamRequest) :
                         downstreamRequest[i].pl[1] = p})
           + HeadersInFlight(p) = ReqHeadersReceived(p)

\* Two ports have each sent a single-flit frame and downstreamRequest carries
\* the two headers.
C10_Witness ==
    /\ Len(downstreamRequest) = 2
    /\ downstreamRequest[1].eofc # 0
    /\ downstreamRequest[2].eofc # 0
    /\ downstreamRequest[1].pl[1] # downstreamRequest[2].pl[1]
    /\ \A p \in Ports : rqPc[p] = "hdr"

\* Markers of the flits of frames whose header has no configured port id.
InvalidMarks ==
    {downstreamResponse[i].pl :
        i \in {j \in 1..Len(downstreamResponse) :
                  Target(downstreamResponse, j) \notin Ports}}

\* C5 (discard of invalid routing): no flit of a frame whose header has an
\* unconfigured port id is passed towards any port; the steering loop, unless
\* the process has panicked, can always go on from such a flit; and the
\* frames with a configured port id are steered to their port all the same.
C5_DiscardInvalid ==
    /\ \A k \in Ports : \A f \in Range(ResponsePath(k)) : f.pl \notin InvalidMarks
    /\ (/\ asPc = "route"
        /\ Target(downstreamResponse, Len(downstreamResponse)) \notin Ports
        /\ ~panicked) => ENABLED ArbRespRoute
    /\ \A k \in Ports : Marks(Routed(k)) = Marks(ResponsePath(k))

\* A two-flit frame with an unconfigured port id was dropped, its body flit
\* carrying a configured id at offset 2, and the frame after it was delivered.
C5_Witness ==
    /\ Len(downstreamResponse) = 3
    /\ downstreamResponse[1].d2 \notin Ports
    /\ downstreamResponse[1].eofc = 0
    /\ downstreamResponse[2].d2 \in Ports
    /\ downstreamResponse[3].d2 \in Ports
    /\ Len(upstreamResponse[downstreamResponse[3].d2]) = 1
    /\ \A k \in Ports : taggedResponse[k] = <<>>

\* C6 as stated (no abort path): whatever downstreamResponse carries, no
\* goroutine panics.
C6_NoAbortPath == ~panicked

(***************************************************************************)
(* Properties of ForwardFrame64 and AssembleFrame64 (SpecFrame64).         *)
(***************************************************************************)
\* The flit that ends a frame has been received / has been sent on.
FrameReceived == smiInput # <<>> /\ Last(smiInput).eofc # 0
FrameForwarded == smiOutput # <<>> /\ Last(smiOutput).eofc # 0

\* C7 (store-and-forward): AssembleFrame64 takes no flit out of smiBuffer and
\* writes no flit to smiOutput before it has received the flit with nonzero
\* Eofc from smiInput.
C7_StoreAndForward ==
    routine = "assemble" =>
        ((smiOutput # <<>> \/ outPc # "idle") => FrameReceived)

\* A frame of several flits has been received and its first flit emitted.
C7_Witness ==
    /\ routine = "assemble"
    /\ Len(smiInput) >= 3
    /\ Len(smiOutput) = 1

\* C8 (pipelined forward): the egress loop of ForwardFrame64 is never held
\* back: it can take a flit whenever smiBuffer holds one and can pass on the
\* flit it holds, whether or not the end of the frame has been received.
C8_EgressNeverWaits ==
    routine = "forward" =>
        /\ (outPc = "recv" /\ smiBuffer # <<>>) => ENABLED ForwardEgressRecv
        /\ outPc = "send" => ENABLED ForwardEgressSend

\* The first flit of a frame is on smiOutput while no flit that ends the
\* frame has been received from smiInput.
C8_Witness ==
    /\ routine = "forward"
    /\ Len(smiOutput) >= 1
    /\ Len(smiInput) >= 2
    /\ \A i \in 1..Len(smiInput) : smiInput[i].eofc = 0

\* C9 as stated (persistent relay): once the last flit of a frame has been
\* forwarded the routine has not returned and is relaying the next frame.
C9_PersistentRelay ==
    FrameForwarded => (outPc # "done" /\ inPc \in {"recv", "send"})

\* C9 as amended (one frame per call): the routine receives no flit past the
\* first one with nonzero Eofc, and once that flit has been forwarded it has
\* relayed exactly the flits it received and has returned.
C9_SingleFrame ==
    /\ \A i \in 1..(Len(smiInput) - 1) : smiInput[i].eofc = 0
    /\ FrameForwarded =>
          /\ outPc = "done"
          /\ inPc \in {"done", "idle"}
          /\ smiOutput = smiInput
          /\ smiBuffer = <<>>

\* The routine has returned while the sender is blocked on the first flit of
\* a second frame.
C9_Witness ==
    /\ outPc = "done"
    /\ Len(smiOutput) >= 2
    /\ smiPending # <<>>
    /\ smiPending[1].pl = <<2, 0>>

(***************************************************************************)
(* Order and content of the flits (SpecAll, Spec).                         *)
(***************************************************************************)
\* The flits of log that the environment marked as frame serial of port p.
FrameFlits(log, p, serial) ==
    LET InFrame(f) == f.pl[1] = p /\ f.pl[2] = serial
    IN SelectSeq(log, InFrame)

\* The request flits between upstreamRequest of port p and the far side:
\* sent to downstreamRequest, held by the request-side goroutine, in
\* taggedRequest, held by the manager.
RequestPath(p) ==
    downstreamRequest
    \o (IF arPc = "send" THEN <<reqFlit>> ELSE <<>>)
    \o taggedRequest[p]
    \o (IF rqPc[p] \in {"lease", "store", "signal", "fwdhdr", "fwdbody"}
          THEN <<rqFlit[p]>> ELSE <<>>)

\* The flits between smiInput and smiOutput of a frame routine.
BufferPath ==
    smiOutput
    \o (IF outPc = "send" THEN <<outputFlitData>> ELSE <<>>)
    \o smiBuffer
    \o (IF inPc = "send" THEN <<inputFlitData>> ELSE <<>>)

Serials(p) == 1..Cardinality(HeaderIdx(upstreamRequest[p]))

\* C11 (flit order within a frame): for every frame, the flits sent to the far
\* side followed by those still on their way are, in order, exactly the flits
\* that were received: from upstreamRequest of a port to downstreamRequest,
\* from downstreamResponse to upstreamResponse of the port in the header, and
\* from smiInput to smiOutput; none is dropped, duplicated or overtaken.
C11_FlitOrder ==
    /\ arPc # "off" =>
          \A p \in Ports : \A s \in Serials(p) :
              /\ Marks(FrameFlits(RequestPath(p), p, s))
                    = Marks(FrameFlits(upstreamRequest[p], p, s))
              /\ Marks(FrameFlits(ResponsePath(p), p, s))
                    = Marks(FrameFlits(downstreamResponse, p, s))
              /\ \A q \in Ports \ {p} : FrameFlits(ResponsePath(q), p, s) = <<>>
    /\ routine # "none" => BufferPath = smiInput

\* A request frame of two flits is on downstreamRequest and the two flits of
\* its response have been delivered to the port.
C11_Witness ==
    /\ arPc # "off"
    /\ \E p \in Ports :
         /\ Len(upstreamResponse[p]) = 2
         /\ upstreamResponse[p][1].eofc = 0
         /\ Len(FrameFlits(downstreamRequest, p, 1)) = 2

\* The flits of the first n flits of log that belong to frames whose header
\* has port id k at offset 2.
RECURSIVE FramesOf(_, _, _)
FramesOf(log, k, n) ==
    IF n = 0 THEN <<>>
    ELSE IF Target(log, n) = k
           THEN Append(FramesOf(log, k, n - 1), log[n])
           ELSE FramesOf(log, k, n - 1)

\* got is, flit by flit, a copy of the beginning of sent, except for offsets
\* 2 and 3 of the flits that start a frame.
CopiedButHeaderTags(sent, got) ==
    /\ Len(got) <= Len(sent)
    /\ \A i \in 1..Len(got) :
         /\ got[i].pl = sent[i].pl
         /\ got[i].eofc = sent[i].eofc
         /\ ~IsHeaderAt(sent, i) => (got[i].d2 = sent[i].d2 /\ got[i].d3 = sent[i].d3)

\* C12 (payload unchanged): the flits of a port's frames on downstreamRequest
\* are, position by position, the flits received from its upstreamRequest, and
\* the flits on its upstreamResponse are those of the frames addressed to it on
\* downstreamResponse, with the same bytes at offsets 0, 1, 4..7 and the same
\* Eofc in every flit and the same bytes at offsets 2 and 3 in every body flit.
C12_PayloadUnchanged ==
    \A p \in Ports :
        /\ CopiedButHeaderTags(upstreamRequest[p],
                               FramesOf(downstreamRequest, p, Len(downstreamRequest)))
        /\ CopiedButHeaderTags(FramesOf(downstreamResponse, p, Len(downstreamResponse)),
                               upstreamResponse[p])

\* A port other than port 1 has sent a two-flit frame whose body flit has 1
\* at offset 2, and has been delivered a two-flit response of the same kind.
C12_Witness ==
    \E p \in Ports \ {1} :
        /\ Len(upstreamResponse[p]) = 2
        /\ upstreamResponse[p][1].eofc = 0
        /\ upstreamResponse[p][2].d2 = 1
        /\ \E i \in 1..Len(downstreamRequest) :
              /\ downstreamRequest[i].pl = <<p, 1, 1>>
              /\ downstreamRequest[i].d2 = 1

(***************************************************************************)
(* Delivery with well-behaved endpoints (SpecLive).                        *)
(***************************************************************************)
\* Frames of a log that have ended.
WholeFrames(log) == Cardinality({i \in 1..Len(log) : log[i].eofc # 0})

\* Every producer has sent its workload, every request flit is on
\* downstreamRequest, and every port has been delivered one whole response
\* frame per request frame it sent.
AllDelivered ==
    \A p \in Ports :
        /\ Len(upstreamRequest[p]) = workload.flits[p]
        /\ Len(FramesOf(downstreamRequest, p, Len(downstreamRequest)))
              = workload.flits[p]
        /\ WholeFrames(upstreamResponse[p]) = WholeFrames(upstreamRequest[p])
        /\ WholeFrames(upstreamResponse[p]) = Cardinality(HeaderIdx(upstreamResponse[p]))
        /\ Len(upstreamResponse[p])
              = Len(FramesOf(downstreamResponse, p, Len(downstreamResponse)))

\* C13 (eventual delivery): with a finite workload of well-formed request
\* frames, fair scheduling, a downstream that takes every request flit and
\* answers every request frame, and consumers that keep reading, some step is
\* possible until everything is delivered, and everything is delivered in the
\* end: all request flits on downstreamRequest, and for every request frame a
\* whole response frame on the upstreamResponse of its port.
C13_EventualDelivery ==
    /\ [](AllDelivered \/ ENABLED Next)
    /\ <>[]AllDelivered

\* Everything is delivered after a port had five requests to send, or after
\* frames of two flits were sent.
C13_Witness ==
    /\ AllDelivered
    /\ \E p \in Ports :
          \/ WholeFrames(upstreamResponse[p]) = SmiMemInFlightLimit + 1
          \/ Len(upstreamResponse[p]) > WholeFrames(upstreamResponse[p])

(***************************************************************************)
(* Tag tables and tag pool of a port manager (Spec).                       *)
(***************************************************************************)
\* The request goroutine is about to write slot rqTag of the tables; the
\* response loop is about to read slot rsTag.
WritesSlot(p) == rqPc[p] = "store"
ReadsSlot(p) == rsPc[p] = "restore"

\* C14 (slot exclusivity): with a downstream that answers outstanding tags
\* only, each once, the request goroutine and the response loop of a manager
\* are never at the same slot of tagTableLower/tagTableUpper together; the
\* slot written is that of a tag taken from tagFifo and not put back, the
\* slot read that of a tag not yet put back.
C14_SlotExclusivity ==
    \A p \in Ports :
        /\ ~(WritesSlot(p) /\ ReadsSlot(p) /\ rqTag[p] = rsTag[p])
        /\ WritesSlot(p) =>
              /\ rqTag[p] \in 0..(SmiMemInFlightLimit - 1)
              /\ rqTag[p] \notin Range(tagFifo[p])
        /\ ReadsSlot(p) =>
              /\ rsTag[p] \in 0..(SmiMemInFlightLimit - 1)
              /\ rsTag[p] \notin Range(tagFifo[p])

\* Both flows of a manager are at the tables at once, at different slots,
\* after the tags have gone round once.
C14_Witness ==
    \E p \in Ports :
        /\ WritesSlot(p)
        /\ ReadsSlot(p)
        /\ ReqHeadersReceived(p) = SmiMemInFlightLimit + 1

(***************************************************************************)
(* The response steering loop (SpecAny).                                   *)
(***************************************************************************)
\* C15 (response-side state machine): the steering loop starts expecting a
\* header with port id 0; while it holds a flit, portId is offset 2 of the
\* flit that started the frame, whatever the later flits carry there, and
\* isHeaderFlit tells whether the flit in hand started a frame; between flits
\* isHeaderFlit is true exactly when the last flit read had nonzero Eofc,
\* whether that flit was sent to a port or discarded.
C15_ResponseStateMachine ==
    LET log == downstreamResponse
    IN /\ log = <<>> => (isHeaderFlit /\ portId = 0 /\ asPc = "recv")
       /\ log # <<>> =>
             /\ portId = Target(log, Len(log))
             /\ asPc = "route" =>
                   /\ respFlit = Last(log)
                   /\ isHeaderFlit = IsHeaderAt(log, Len(log))
             /\ asPc = "recv" => isHeaderFlit = (Last(log).eofc # 0)

\* The header of a frame with an unconfigured port id was discarded, then
\* its last flit, which has a configured id at offset 2, and the loop has read
\* the header of the next frame.
C15_Witness ==
    /\ asPc = "route"
    /\ Len(downstreamResponse) = 3
    /\ downstreamResponse[1].d2 \notin Ports
    /\ downstreamResponse[1].eofc = 0
    /\ downstreamResponse[2].d2 \in Ports
    /\ downstreamResponse[3].d2 \in Ports
    /\ downstreamResponse[3].d2 # downstreamResponse[2].d2
    /\ portId = downstreamResponse[3].d2

(***************************************************************************)
(* Ready signals and the request-side goroutine (Spec).                    *)
(***************************************************************************)
\* The request-side goroutine is between frames on downstreamRequest.
BetweenFrames == downstreamRequest = <<>> \/ Last(downstreamRequest).eofc # 0
\* It has taken a ready signal and has not yet read a flit of the frame.
AwaitsFirstFlit == arPc = "recv" /\ BetweenFrames

\* Ready signals of port p not yet honoured by the first read of a frame, and
\* header flits of port p signalled but not yet read by the arbiter.
SignalsPending(p) == Len(transferReq[p]) + Count(AwaitsFirstFlit /\ arPortId = p)
HeadersPending(p) ==
    Count(rqPc[p] = "fwdhdr") + Cardinality(MarkedHeaders(Range(taggedRequest[p])))

\* Ready signals the arbiter has taken from port p, and frames of port p it
\* has started to copy: selected, or the header read, or sent on.
SignalsConsumed(p) ==
    ReqHeadersReceived(p) - Count(rqPc[p] \in {"lease", "store", "signal"})
      - Len(transferReq[p])
FramesStarted(p) ==
    Cardinality({i \in HeaderIdx(downstreamRequest) : downstreamRequest[i].d2 = p})
      + Count(arPc = "send" /\ BetweenFrames /\ reqFlit.d2 = p)
      + Count(AwaitsFirstFlit /\ arPortId = p)

\* C16 (ready signal and frame stay paired): every ready signal of a port that
\* is pending stands for one header flit that its manager has rewritten and
\* the arbiter has not read, the manager raising the signal before it forwards
\* that header; the signals taken from a port are as many as its frames the
\* arbiter has started to copy; and the first flit read after a signal was
\* taken is the header flit of a frame of the port that raised it.
C16_ReadyPairing ==
    /\ \A p \in Ports :
         /\ SignalsPending(p) = HeadersPending(p)
         /\ SignalsConsumed(p) = FramesStarted(p)
         /\ rqPc[p] = "signal" => rqFlit[p] \notin Range(taggedRequest[p])
    /\ arPc # "select" => arPortId \in Ports
    /\ (AwaitsFirstFlit /\ taggedRequest[arPortId] # <<>>) =>
          /\ Head(taggedRequest[arPortId]).pl[3] = 0
          /\ Head(taggedRequest[arPortId]).d2 = arPortId
    /\ (arPc = "send" /\ BetweenFrames) =>
          /\ reqFlit.pl[3] = 0
          /\ reqFlit.pl[1] = arPortId
          /\ reqFlit.d2 = arPortId

\* After copying a frame with a body flit the arbiter has taken the ready
\* signal of a port before its manager has forwarded the header.
C16_Witness ==
    \E p \in Ports :
        /\ AwaitsFirstFlit
        /\ arPortId = p
        /\ rqPc[p] = "fwdhdr"
        /\ taggedRequest[p] = <<>>
        /\ Len(downstreamRequest) = 2
        /\ downstreamRequest[1].eofc = 0

\* The leases of port p other than those of its outstanding request headers:
\* a tag taken from tagFifo and about to be stored under, and a tag taken from
\* a response header and not yet put back.
LeasesInHand(p) ==
    (IF rqPc[p] = "store" THEN {rqTag[p]} ELSE {})
    \cup (IF rsPc[p] \in {"restore", "release"} THEN {rsTag[p]} ELSE {})
FreePool(p) == Range(tagFifo[p])

\* C17 (tag pool conservation): with a downstream that answers each
\* outstanding tag once, the free pool of a manager holds no tag twice, no two
\* leases are of the same tag, the free tags and the leased tags are disjoint
\* and together are 0..3, and with no lease left the pool holds all 4 tags.
C17_TagConservation ==
    \A p \in Ports :
        LET out == OutstandingHeaders(p)
            leased == {h.d3 : h \in out} \cup LeasesInHand(p)
            holders == Cardinality(out) + Count(rqPc[p] = "store")
                         + Count(rsPc[p] \in {"restore", "release"})
        IN /\ Cardinality(FreePool(p)) = Len(tagFifo[p])
           /\ Cardinality(leased) = holders
           /\ FreePool(p) \cap leased = {}
           /\ FreePool(p) \cup leased = 0..(SmiMemInFlightLimit - 1)
           /\ holders = 0 => Len(tagFifo[p]) = SmiMemInFlightLimit

\* A port has had five requests answered, the first ones out of order: all
\* the tags are back in the pool, in another order than at the start.
C17_Witness ==
    \E p \in Ports :
        /\ RespHeadersReceived(p) = SmiMemInFlightLimit + 1
        /\ Len(tagFifo[p]) = SmiMemInFlightLimit
        /\ tagFifo[p][1] # 1

(***************************************************************************)
(* Tag exhaustion (SpecExhaust).                                           *)
(***************************************************************************)
\* The request goroutine of port p waits for a tag and there is none.
Exhausted(p) == p \in Ports /\ rqPc[p] = "lease" /\ tagFifo[p] = <<>>

\* Port p holds no claim on the arbiter: each of its ready signals stands for
\* a header that is already in its taggedRequest, and the arbiter is not
\* waiting for a flit of port p that is not there.
NoClaim(p) ==
    /\ SignalsPending(p) = Cardinality(MarkedHeaders(Range(taggedRequest[p])))
    /\ (arPc = "recv" /\ arPortId = p) => taggedRequest[p] # <<>>

\* Every flit the other ports have to send is on downstreamRequest.
OthersForwarded(p) ==
    \A q \in Ports \ {p} :
        /\ Len(upstreamRequest[q]) = workload.flits[q]
        /\ Len(FramesOf(downstreamRequest, q, Len(downstreamRequest)))
              = workload.flits[q]

\* C18 (tag exhaustion is isolated): a manager that waits for a tag with all
\* four leased has raised no ready signal for the waiting request and holds no
\* claim on the arbiter; it goes on waiting, no response arriving, and while
\* it does the frames of the other ports go on to downstreamRequest until all
\* their flits are there.
C18_ExhaustionIsolated ==
    /\ [](\A p \in Ports : Exhausted(p) => NoClaim(p))
    /\ (\E p \in Ports : Exhausted(p))
          ~> (\E p \in Ports : Exhausted(p) /\ OthersForwarded(p))

\* The last port waits for a tag, its four requests unanswered, and the frame
\* of another port is the last on downstreamRequest.
C18_Witness ==
    \E p \in Ports :
        /\ Exhausted(p)
        /\ downstreamResponse = <<>>
        /\ OthersForwarded(p)
        /\ Len(downstreamRequest) = SmiMemInFlightLimit + MaxFrameLen
        /\ downstreamRequest[SmiMemInFlightLimit].d2 = p
        /\ Last(downstreamRequest).pl[1] # p
        /\ Last(downstreamRequest).pl[3] > 0

(***************************************************************************)
(* Order of the frames of one port (Spec).                                 *)
(***************************************************************************)
\* The serials of the frames that start in log, in the order they start, as
\* the environment marked them; those of port p only.
FrameSerials(log) ==
    LET Starts(f) == f.pl[3] = 0
        hs == SelectSeq(log, Starts)
    IN [i \in 1..Len(hs) |-> hs[i].pl[2]]
FrameSerialsOf(log, p) ==
    LET From(f) == f.pl[1] = p
    IN FrameSerials(SelectSeq(log, From))
IsPrefix(a, b) == Len(a) <= Len(b) /\ SubSeq(b, 1, Len(a)) = a

\* C19 (per-port frame order): the frames of one port start on
\* downstreamRequest in the order the port sent them, and the response frames
\* delivered on a port's upstreamResponse are, in order, the first of the
\* frames addressed to it on downstreamResponse.
C19_PerPortFrameOrder ==
    \A p \in Ports :
        /\ IsPrefix(FrameSerialsOf(downstreamRequest, p), FrameSerials(upstreamRequest[p]))
        /\ IsPrefix(FrameSerials(upstreamResponse[p]),
                    FrameSerials(FramesOf(downstreamResponse, p, Len(downstreamResponse))))

\* downstreamRequest carries two frames or more, and a port has been
\* delivered the response to its second request before that to its first, as
\* the downstream sent them.
C19_Witness ==
    /\ \E p \in Ports :
          /\ Len(upstreamResponse[p]) >= 2
          /\ upstreamResponse[p][1].pl[2] = 2
          /\ upstreamResponse[p][2].pl[2] = 1
    /\ Len(FrameSerials(downstreamRequest)) >= 2

(***************************************************************************)
(* AssembleFrame64 and the size of smiBuffer (SpecFrame64Fair).            *)
(***************************************************************************)
\* AssembleFrame64 has received more flits than smiBuffer holds.
Overflowed == routine = "assemble" /\ Len(smiInput) > SmiBufferSize
\* It is stuck in its ingress loop, the buffer full, nothing emitted.
StuckOnBuffer ==
    /\ inPc = "send"
    /\ outPc = "idle"
    /\ Len(smiBuffer) = SmiBufferSize
    /\ smiOutput = <<>>
    /\ ~ENABLED AssembleFlow

\* C20 (AssembleFrame64 and frames that fit): with a destination that keeps
\* reading, the ingress loop is never held up by smiBuffer while it has
\* received at most 34 flits, and a frame of at most 34 flits, once received,
\* is in the end emitted completely and the routine returns; with a 35th flit
\* received the ingress loop is stuck on the full buffer from then on and no
\* flit is ever emitted.
C20_AssembleFits ==
    /\ []((routine = "assemble" /\ inPc = "send" /\ Len(smiInput) <= SmiBufferSize)
            => ENABLED AssembleIngressSend)
    /\ (routine = "assemble" /\ FrameReceived /\ Len(smiInput) <= SmiBufferSize)
          ~> (outPc = "done" /\ smiOutput = smiInput /\ ~ENABLED AssembleFlow)
    /\ [](Overflowed => []StuckOnBuffer)

\* AssembleFrame64 has emitted a frame of exactly 34 flits and returned.
C20_Witness ==
    /\ routine = "assemble"
    /\ outPc = "done"
    /\ Len(smiOutput) = SmiBufferSize

====
